---- MODULE Spec2Model ----
(***************************************************************************)
(* Order ledger, reconciliation and cancellation of                        *)
(* stakemachine/strategies/basestrategy.py (class BaseStrategy).           *)
(*                                                                         *)
(* Bot instances share one exchange account (the GrapheneExchange object   *)
(* `dex`).  Each instance keeps state["orders"], a dict market -> list of  *)
(* order ids, and opened_orders, the id snapshot taken by loadMarket.      *)
(* Python dicts are functions whose DOMAIN is the key set; Python lists    *)
(* are sequences.                                                          *)
(***************************************************************************)
EXTENDS Integers, Sequences, FiniteSets, TLC

\* Bounds of the model.
MaxIds == 2          \* order ids the exchange hands out in one behaviour
MaxLen == 2          \* longest orders[m] list store() is followed to
MaxCnt == 2          \* highest fsm_cnt incrementFSMCounter is followed to

Instances == {1, 2}
Markets == {"M1", "M2"}
Types == {"buy", "sell"}
SideArgs == {"buy", "sell", "both"}
Ids == 1..MaxIds

\* settings["markets"]: the markets a bot serves, in configuration order.
markets == <<"M1", "M2">>

\* The `markets` argument of the cancel_* methods; <<>> is None / not given.
MarketArgs == {<<>>, <<"M1">>, <<"M2">>}

VARIABLES
    dex,            \* open orders of the account: [orderNumber, market, type]
    placedBy,       \* placedBy[id]: the instance whose sell/buy created id
    listsEmpty,     \* whether the exchange lists a market without open orders
    safe_mode,      \* config.safe_mode
    state,          \* state[i]: the state document of instance i
    opened_orders,  \* opened_orders[i]
    stored,         \* the Persistent Store's record per bot name
    fsm,            \* fsm[i]: self.fsm
    fsm_cnt,        \* fsm_cnt[i]: self.fsm_cnt
    recov,          \* per instance: progress of the first tick after a restart
    pc,             \* per instance: where the scheduler's tick stands
    observed,       \* the <<market, id>> pairs the Gateway has listed so far
    incs,           \* incrementFSMCounter calls since the last counter reset
    last            \* the operation that led to this state, and what it did

vars == <<dex, placedBy, listsEmpty, safe_mode, state, opened_orders, stored,
          fsm, fsm_cnt, recov, pc, observed, incs, last>>

----------------------------------------------------------------------------
\* Python list and dict primitives.

\* x in s
Contains(s, x) == \E k \in 1..Len(s) : s[k] = x

\* s.count(x)
Count(s, x) == Cardinality({k \in 1..Len(s) : s[k] = x})

\* No element occurs twice in s.
NoDup(s) == \A j, k \in 1..Len(s) : s[j] = s[k] => j = k

\* s.remove(x) for x in s: drops the first occurrence only.
RemoveFirst(s, x) ==
    IF ~Contains(s, x) THEN s
    ELSE LET k == CHOOSE j \in 1..Len(s) :
                      s[j] = x /\ \A h \in 1..(j - 1) : s[h] # x
         IN  [j \in 1..(Len(s) - 1) |-> IF j < k THEN s[j] ELSE s[j + 1]]

\* d[k] = v
Put(d, k, v) == [x \in (DOMAIN d) \cup {k} |-> IF x = k THEN v ELSE d[x]]

\* The elements of a set of ids in ascending order.
RECURSIVE SortedSeq(_)
SortedSeq(S) ==
    IF S = {} THEN <<>>
    ELSE LET x == CHOOSE y \in S : \A z \in S : y <= z
         IN  <<x>> \o SortedSeq(S \ {x})

Range(s) == {s[k] : k \in 1..Len(s)}

----------------------------------------------------------------------------
\* The Exchange Gateway (self.dex).  Its listings are dicts keyed by market.
\* Whether a market without open orders has an entry (an empty list) or none
\* is the Gateway's choice, fixed for a behaviour: listsEmpty.  A listing
\* gives the orders of a market in ascending id order.

ListedMarkets == {m \in Markets : listsEmpty \/ \E o \in dex : o.market = m}

OpenIn(m) == {o.orderNumber : o \in {p \in dex : p.market = m}}

OrderOf(id) == CHOOSE o \in dex : o.orderNumber = id

\* self.dex.returnOpenOrdersIds()
returnOpenOrdersIds == [m \in ListedMarkets |-> SortedSeq(OpenIn(m))]

\* self.dex.returnOpenOrders()
returnOpenOrders ==
    [m \in ListedMarkets |->
        LET ids == SortedSeq(OpenIn(m))
        IN  [k \in 1..Len(ids) |->
                [orderNumber |-> ids[k], type |-> OrderOf(ids[k]).type]]]

----------------------------------------------------------------------------
\* The record of the latest operation.

NoLast ==
    [op |-> "init", inst |-> 0, raised |-> FALSE, notify |-> FALSE,
     again |-> FALSE, firstNoDup |-> FALSE, scope |-> {}, orderid |-> 0,
     pre |-> <<>>, live |-> <<>>, opened |-> <<>>,
     filled |-> <<>>, placed |-> <<>>,
     toCancel |-> {}, requested |-> {}, failed |-> {}, canceled |-> <<>>,
     ret |-> 0,
     market |-> "", key |-> "", value |-> "", got |-> "", follows |-> <<>>,
     doc |-> <<>>, myOrders |-> <<>>, name |-> "", reference |-> {}]

NoRecov == [stage |-> "none", orphans |-> {}]

\* Any operation other than the restart / loadMarket / store sequence ends
\* the tracking of the first tick after a restart.
RecovReset(i) == [recov EXCEPT ![i] = NoRecov]

----------------------------------------------------------------------------
\* First run: nothing stored, so restore() gives {"orders": {}}; opened_orders
\* is the list [] of line 42, in which no market is found, like the dict {}.
Init ==
    /\ dex = {}
    /\ placedBy = <<>>
    /\ listsEmpty \in BOOLEAN
    /\ safe_mode \in BOOLEAN
    /\ state = [i \in Instances |-> [orders |-> <<>>]]
    /\ opened_orders = [i \in Instances |-> <<>>]
    /\ stored = [i \in Instances |-> [exists |-> FALSE, doc |-> [orders |-> <<>>]]]
    /\ fsm = [i \in Instances |-> "waiting"]
    /\ fsm_cnt = [i \in Instances |-> 0]
    /\ recov = [i \in Instances |-> NoRecov]
    /\ pc = [i \in Instances |-> "idle"]
    /\ observed = {}
    /\ incs = 0
    /\ last = NoLast

----------------------------------------------------------------------------
\* sell / buy (lines 303-363): dex.sell / dex.buy either creates an open
\* order on the account or raises, in which case the method returns False.

PlaceStep(i, m, t, ok) ==
    /\ ok => Len(placedBy) < MaxIds
    /\ IF ok
       THEN /\ dex' = dex \cup {[orderNumber |-> Len(placedBy) + 1,
                                  market |-> m, type |-> t]}
            /\ placedBy' = Append(placedBy, i)
       ELSE UNCHANGED <<dex, placedBy>>
    /\ recov' = RecovReset(i)
    /\ UNCHANGED <<listsEmpty, safe_mode, state, opened_orders, stored,
                   fsm, fsm_cnt>>

sell(i, m) == \E ok \in BOOLEAN : PlaceStep(i, m, "sell", ok) /\ last' = NoLast

buy(i, m) == \E ok \in BOOLEAN : PlaceStep(i, m, "buy", ok) /\ last' = NoLast

\* A counterparty fills an open order: it leaves the account's open orders.
Fill(o) ==
    /\ o \in dex
    /\ dex' = dex \ {o}
    /\ last' = NoLast
    /\ UNCHANGED <<placedBy, listsEmpty, safe_mode, state, opened_orders,
                   stored, fsm, fsm_cnt, recov>>

----------------------------------------------------------------------------
\* loadMarket (lines 230-250).  The two listings of lines 236 and 240 are
\* taken from the same order book.

\* The inner loop, lines 243-250: `for orderid in old_orders[market]` walks
\* the very list that line 247 removes from, so idx advances over a list that
\* shrinks under it.  cur_orders[market] raises KeyError when the market has
\* no entry.
RECURSIVE ScanOrders(_, _, _, _, _, _)
ScanOrders(lst, idx, cur, m, notify, filled) ==
    IF idx > Len(lst)
    THEN [lst |-> lst, filled |-> filled, raised |-> FALSE]
    ELSE IF m \notin DOMAIN cur
    THEN [lst |-> lst, filled |-> filled, raised |-> TRUE]
    ELSE LET orderid == lst[idx] IN
         IF ~Contains(cur[m], orderid)
         THEN ScanOrders(IF Contains(lst, orderid)
                             THEN RemoveFirst(lst, orderid) ELSE lst,
                         idx + 1, cur, m, notify,
                         IF notify THEN Append(filled, orderid) ELSE filled)
         ELSE ScanOrders(lst, idx + 1, cur, m, notify, filled)

\* A reconciliation that takes the Gateway's listing for the ledger: ids that
\* are open but not recorded are adopted.
LoadLoopAdopting(ords, cur, k, notify, filled) ==
    [orders |-> cur, filled |-> filled, raised |-> FALSE]

\* The outer loop, lines 241-242, from the k-th served market on.
RECURSIVE LoadLoop(_, _, _, _, _)
LoadLoop(ords, cur, k, notify, filled) ==
    IF k > Len(markets)
    THEN [orders |-> ords, filled |-> filled, raised |-> FALSE]
    ELSE LET m == markets[k] IN
         IF m \notin DOMAIN ords
         THEN LoadLoop(ords, cur, k + 1, notify, filled)
         ELSE LET r == ScanOrders(ords[m], 1, cur, m, notify, filled) IN
              IF r.raised
              THEN [orders |-> [ords EXCEPT ![m] = r.lst],
                    filled |-> r.filled, raised |-> TRUE]
              ELSE LoadLoop([ords EXCEPT ![m] = r.lst], cur, k + 1, notify,
                            r.filled)

LoadMarketStep(i, notify) ==
    LET cur == returnOpenOrdersIds
        r   == LoadLoop(state[i].orders, cur, 1, notify, <<>>)
    IN  /\ opened_orders' = [opened_orders EXCEPT ![i] = cur]
        /\ state' = [state EXCEPT ![i].orders = r.orders]
        /\ recov' = [recov EXCEPT ![i] =
                        IF recov[i].stage = "restarted" /\ ~r.raised
                        THEN [recov[i] EXCEPT !.stage = "loaded"]
                        ELSE NoRecov]
        /\ UNCHANGED <<dex, placedBy, listsEmpty, safe_mode, stored,
                       fsm, fsm_cnt>>

loadMarket(i, notify) ==
    LET cur == returnOpenOrdersIds
        r   == LoadLoop(state[i].orders, cur, 1, notify, <<>>)
    IN  /\ LoadMarketStep(i, notify)
        /\ last' = [NoLast EXCEPT
                       !.op = "loadMarket", !.inst = i, !.notify = notify,
                       !.raised = r.raised,
                       !.again = /\ last.op = "loadMarket"
                                 /\ last.inst = i
                                 /\ ~last.raised,
                       !.firstNoDup = \A m \in DOMAIN last.pre :
                                         NoDup(last.pre[m]),
                       !.pre = state[i].orders, !.live = cur,
                       !.filled = r.filled]

----------------------------------------------------------------------------
\* store (lines 204-223).

\* NewIds without the test against opened_orders (lines 216-217): every open
\* id counts as new.
NewIdsIgnoringSnapshot(opened, cur, m) ==
    IF m \notin DOMAIN cur THEN <<>> ELSE cur[m]

\* NewIds reading the whole listing instead of curOrders[market]: the new
\* ids of every market are filed under m.
NewIdsOfAnyMarket(opened, cur, m) ==
    SortedSeq(UNION {{id \in Range(cur[x]) :
                        \/ x \notin DOMAIN opened
                        \/ ~Contains(opened[x], id)} : x \in DOMAIN cur})

\* Lines 214-219 for one market: the ids of curOrders[market] that are not in
\* opened_orders[market], in list order.
NewIds(opened, cur, m) ==
    IF m \notin DOMAIN cur THEN <<>>
    ELSE SelectSeq(cur[m],
                   LAMBDA orderid : \/ m \notin DOMAIN opened
                                    \/ ~Contains(opened[m], orderid))

\* The loop of lines 211-219 from the k-th served market on.
RECURSIVE StoreLoop(_, _, _, _, _)
StoreLoop(myorders, opened, cur, k, placed) ==
    IF k > Len(markets)
    THEN [orders |-> myorders, placed |-> placed]
    ELSE LET m    == markets[k]
             base == IF m \in DOMAIN myorders THEN myorders
                     ELSE Put(myorders, m, <<>>)
             new  == NewIds(opened, cur, m)
         IN  StoreLoop([base EXCEPT ![m] = @ \o new], opened, cur, k + 1,
                       placed \o new)

\* Lines 222-223 without the test of safe_mode: the document is written in
\* either mode.
SaveAlways(i, doc) == [stored EXCEPT ![i] = [exists |-> TRUE, doc |-> doc]]

\* Lines 222-223: `if not self.config.safe_mode: self.storage.store(state)`.
SaveUnlessSafe(i, doc) ==
    IF safe_mode THEN stored
    ELSE [stored EXCEPT ![i] = [exists |-> TRUE, doc |-> doc]]

StoreStep(i) ==
    LET cur == returnOpenOrdersIds
        r   == StoreLoop(state[i].orders, opened_orders[i], cur, 1, <<>>)
        doc == [state[i] EXCEPT !.orders = r.orders]
    IN  /\ \A m \in DOMAIN r.orders : Len(r.orders[m]) <= MaxLen
        /\ state' = [state EXCEPT ![i] = doc]
        /\ stored' = SaveUnlessSafe(i, doc)
        /\ recov' = [recov EXCEPT ![i] =
                        IF recov[i].stage = "loaded"
                        THEN [recov[i] EXCEPT !.stage = "stored"]
                        ELSE NoRecov]
        /\ UNCHANGED <<dex, placedBy, listsEmpty, safe_mode, opened_orders,
                       fsm, fsm_cnt>>

store(i) ==
    LET cur == returnOpenOrdersIds
        r   == StoreLoop(state[i].orders, opened_orders[i], cur, 1, <<>>)
    IN  /\ StoreStep(i)
        /\ last' = [NoLast EXCEPT
                       !.op = "store", !.inst = i,
                       !.pre = state[i].orders, !.live = cur,
                       !.opened = opened_orders[i],
                       !.placed = r.placed]

----------------------------------------------------------------------------
\* The cancellation methods (lines 64-138).

\* `o["type"] is side or side is "both"` (lines 95, 118, 136).  `is` compares
\* object identity: two equal strings are the same object only when both are
\* interned, which the language leaves to the implementation; sameObj is that
\* outcome for the type strings of the Gateway's records.  "both" is compared
\* with the literal it defaults to.
SideMatch(type, side, sameObj) == (type = side /\ sameObj) \/ side = "both"

\* The outcomes of the identity test that can change the result.
SameObjOutcomes(side) == IF side = "both" THEN {TRUE} ELSE BOOLEAN

\* CancelOne without the try/except of lines 68-71: a failing Gateway cancel
\* propagates and ends the batch.
CancelOneUncaught(acc, orderId, failing) ==
    IF orderId \in failing
    THEN [acc EXCEPT !.requested = @ \cup {orderId}, !.raised = TRUE]
    ELSE [orders    |-> [m \in DOMAIN acc.orders |->
                            IF Contains(acc.orders[m], orderId)
                            THEN RemoveFirst(acc.orders[m], orderId)
                            ELSE acc.orders[m]],
          requested |-> acc.requested \cup {orderId},
          gone      |-> acc.gone \cup {orderId},
          canceled  |-> Append(acc.canceled, orderId),
          num       |-> acc.num + 1,
          raised    |-> FALSE]

\* CancelOne with a `continue` in the except branch: a failed id keeps its
\* place in the ledger and gets no callback.
CancelOneSkipFailed(acc, orderId, failing) ==
    IF orderId \in failing
    THEN [acc EXCEPT !.requested = @ \cup {orderId}, !.num = @ + 1]
    ELSE [orders    |-> [m \in DOMAIN acc.orders |->
                            IF Contains(acc.orders[m], orderId)
                            THEN RemoveFirst(acc.orders[m], orderId)
                            ELSE acc.orders[m]],
          requested |-> acc.requested \cup {orderId},
          gone      |-> acc.gone \cup {orderId},
          canceled  |-> Append(acc.canceled, orderId),
          num       |-> acc.num + 1,
          raised    |-> FALSE]

\* One pass of the loop body of _cancel_set, lines 67-76, for orderId: the
\* Gateway cancel is tried (it raises for the ids in failing), then the
\* callback runs and the first occurrence of orderId leaves every list.
CancelOne(acc, orderId, failing) ==
    [orders    |-> [m \in DOMAIN acc.orders |->
                       IF Contains(acc.orders[m], orderId)
                       THEN RemoveFirst(acc.orders[m], orderId)
                       ELSE acc.orders[m]],
     requested |-> acc.requested \cup {orderId},
     gone      |-> IF orderId \in failing THEN acc.gone
                   ELSE acc.gone \cup {orderId},
     canceled  |-> Append(acc.canceled, orderId),
     num       |-> acc.num + 1,
     raised    |-> FALSE]

\* _cancel_set over the ids of todo, in order.  The code iterates a Python
\* set, whose order is unspecified; the passes for different ids commute, so
\* ascending order stands for all of them.
RECURSIVE CancelLoop(_, _, _, _)
CancelLoop(acc, todo, k, failing) ==
    IF k > Len(todo) \/ acc.raised THEN acc
    ELSE CancelLoop(CancelOne(acc, todo[k], failing), todo, k + 1, failing)

cancel_set(ords, toCancel, failing) ==
    CancelLoop([orders |-> ords, requested |-> {}, gone |-> {},
                canceled |-> <<>>, num |-> 0, raised |-> FALSE],
               SortedSeq(toCancel), 1, failing)

\* `if not markets: markets = self.settings["markets"]`
MarketsOr(mk) == IF mk = <<>> THEN markets ELSE mk

\* The ids at positions of lst whose record matches side.
Matching(lst, side, sameObj) ==
    {lst[k].orderNumber :
        k \in {j \in 1..Len(lst) : SideMatch(lst[j].type, side, sameObj)}}

\* Lines 88-96: the candidates of cancel_all.
AllCandidates(mk, side, sameObj) ==
    LET curOrders == returnOpenOrders
    IN  [raised |-> FALSE,
         ids |-> UNION {Matching(curOrders[m], side, sameObj) :
                           m \in Range(MarketsOr(mk)) \cap DOMAIN curOrders}]

\* MineCandidates without the ledger tests of lines 115-117.
MineCandidatesAnyOwner(ords, mk, side, sameObj) ==
    LET curOrders == returnOpenOrders
        ms == Range(MarketsOr(mk))
    IN  IF \E m \in ms : m \notin DOMAIN curOrders
        THEN [raised |-> TRUE, ids |-> {}]
        ELSE [raised |-> FALSE,
              ids |-> UNION {Matching(curOrders[m], side, sameObj) : m \in ms}]

\* Lines 107-119: the candidates of cancel_mine.  curOrders[m] raises KeyError
\* for a market without an entry.
MineCandidates(ords, mk, side, sameObj) ==
    LET curOrders == returnOpenOrders
        ms == Range(MarketsOr(mk))
    IN  IF \E m \in ms : m \notin DOMAIN curOrders
        THEN [raised |-> TRUE, ids |-> {}]
        ELSE [raised |-> FALSE,
              ids |-> UNION {
                  {id \in Matching(curOrders[m], side, sameObj) :
                      m \in DOMAIN ords /\ Contains(ords[m], id)} : m \in ms}]

\* Lines 130-137: the candidates of cancel_this_markets.
ThisMarketsCandidates(mk, side, sameObj) ==
    LET orders == returnOpenOrders
        ms == Range(MarketsOr(mk))
    IN  IF \E m \in ms : m \notin DOMAIN orders
        THEN [raised |-> TRUE, ids |-> {}]
        ELSE [raised |-> FALSE,
              ids |-> UNION {Matching(orders[m], side, sameObj) : m \in ms}]

\* What a cancel_* method does to the account and the ledger: r is the
\* outcome of _cancel_set on the candidates c, which is not reached when the
\* planning raised.
CancelBatchStep(i, c, r) ==
    /\ IF c.raised
       THEN UNCHANGED <<dex, state>>
       ELSE /\ dex' = {o \in dex : o.orderNumber \notin r.gone}
            /\ state' = [state EXCEPT ![i].orders = r.orders]
    /\ recov' = RecovReset(i)
    /\ UNCHANGED <<placedBy, listsEmpty, safe_mode, opened_orders, stored,
                   fsm, fsm_cnt>>

\* A cancel_* method: the candidates c, then _cancel_set on them, unless the
\* planning raised.  reference is kept for the record only.
CancelBatchRef(i, op, mk, c, failing, reference) ==
    \E r \in {cancel_set(state[i].orders, c.ids, failing)} :
        /\ failing \subseteq c.ids
        /\ CancelBatchStep(i, c, r)
        /\ last' = [NoLast EXCEPT
                       !.op = op, !.inst = i, !.scope = Range(MarketsOr(mk)),
                       !.raised = c.raised \/ r.raised,
                       !.pre = state[i].orders, !.live = returnOpenOrdersIds,
                       !.toCancel = c.ids,
                       !.requested = IF c.raised THEN {} ELSE r.requested,
                       !.failed = failing,
                       !.canceled = IF c.raised THEN <<>> ELSE r.canceled,
                       !.ret = IF c.raised THEN 0 ELSE r.num,
                       !.reference = reference]

CancelBatch(i, op, mk, c, failing) ==
    CancelBatchRef(i, op, mk, c, failing, {})

cancel_all(i, mk, side) ==
    \E sameObj \in SameObjOutcomes(side) :
       \E c \in {AllCandidates(mk, side, sameObj)} :
           \E failing \in SUBSET c.ids :
              CancelBatch(i, "cancel_all", mk, c, failing)

cancel_mine(i, mk, side) ==
    \E sameObj \in SameObjOutcomes(side) :
       \E c \in {MineCandidates(state[i].orders, mk, side, sameObj)} :
           \E failing \in SUBSET c.ids :
              CancelBatch(i, "cancel_mine", mk, c, failing)

cancel_this_markets(i, mk, side) ==
    \E sameObj \in SameObjOutcomes(side) :
       \E c \in {ThisMarketsCandidates(mk, side, sameObj)} :
           \E failing \in SUBSET c.ids :
              CancelBatch(i, "cancel_this_markets", mk, c, failing)

\* The side aliases (lines 140-158).  `self.cancel_all("sell")` binds "sell"
\* to the first parameter, markets, and leaves side at "both"; `for m in
\* markets` then walks the characters of the string.
Letters == [sell |-> <<"s", "e", "l", "l">>, buy |-> <<"b", "u", "y">>]

\* cancel_all_sell_orders / cancel_all_buy_orders for word "sell" / "buy".
\* reference is what cancel_all(side=word) selects in the served markets.
cancel_all_orders(i, word) ==
    \E sameObj \in BOOLEAN :
       \E c \in {AllCandidates(Letters[word], "both", TRUE)} :
          \E failing \in SUBSET c.ids :
             CancelBatchRef(i, "cancel_all_" \o word \o "_orders",
                            Letters[word], c, failing,
                            AllCandidates(<<>>, word, sameObj).ids)

\* cancel_my_sell_orders / cancel_my_buy_orders for word "sell" / "buy".
\* reference is what cancel_mine(side=word) selects in the served markets.
cancel_my_orders(i, word) ==
    \E sameObj \in BOOLEAN :
       \E c \in {MineCandidates(state[i].orders, Letters[word], "both", TRUE)} :
          \E failing \in SUBSET c.ids :
             CancelBatchRef(i, "cancel_my_" \o word \o "_orders",
                            Letters[word], c, failing,
                            MineCandidates(state[i].orders, <<>>, word,
                                           sameObj).ids)

cancel_all_sell_orders(i) == cancel_all_orders(i, "sell")

cancel_all_buy_orders(i) == cancel_all_orders(i, "buy")

cancel_my_sell_orders(i) == cancel_my_orders(i, "sell")

cancel_my_buy_orders(i) == cancel_my_orders(i, "buy")

\* cancel (lines 180-188).  When dex.cancel raises, the handler logs and falls
\* through to `return cancel` with the local never bound: UnboundLocalError.
CancelResult(ok) == [raised |-> ~ok]

\* What cancel does to the account; ok is whether dex.cancel succeeds.
CancelOrderStep(i, orderid, ok) ==
    /\ ok => \E o \in dex : o.orderNumber = orderid
    /\ dex' = IF ok THEN {o \in dex : o.orderNumber # orderid} ELSE dex
    /\ recov' = RecovReset(i)
    /\ UNCHANGED <<placedBy, listsEmpty, safe_mode, state, opened_orders,
                   stored, fsm, fsm_cnt>>

cancel(i, orderid) ==
    \E ok \in BOOLEAN :
       /\ CancelOrderStep(i, orderid, ok)
       /\ last' = [NoLast EXCEPT
                      !.op = "cancel", !.inst = i, !.orderid = orderid,
                      !.pre = state[i].orders,
                      !.failed = IF ok THEN {} ELSE {orderid},
                      !.raised = CancelResult(ok).raised]

\* cancel_all() and cancel_mine() with their default arguments, and
\* cancel(orderid), without the record of the call.
CancelAllStep(i) ==
    \E c \in {AllCandidates(<<>>, "both", TRUE)} :
       \E failing \in SUBSET c.ids :
          \E r \in {cancel_set(state[i].orders, c.ids, failing)} :
             CancelBatchStep(i, c, r)

CancelMineStep(i) ==
    \E c \in {MineCandidates(state[i].orders, <<>>, "both", TRUE)} :
       \E failing \in SUBSET c.ids :
          \E r \in {cancel_set(state[i].orders, c.ids, failing)} :
             CancelBatchStep(i, c, r)

CancelStepOf(i, orderid) ==
    \E ok \in BOOLEAN : CancelOrderStep(i, orderid, ok)

----------------------------------------------------------------------------
\* The scoped accessors _set and _get (lines 53-62) and getMyOrders (lines
\* 269-278).  A state document is a dict: "orders" and one entry per market
\* name that an accessor has touched; {} is the empty function <<>>.

\* The keys and values strategies keep per market, and Python's None.
Keys == {"k1"}
Values == {"v1", "v2"}
None == "None"

\* GetIn without line 60: an unseen market is not created.
GetInLeavingAbsent(doc, market, key) ==
    IF market \notin DOMAIN doc THEN [doc |-> doc, ret |-> None]
    ELSE [doc |-> doc,
          ret |-> IF key \in DOMAIN doc[market] THEN doc[market][key]
                  ELSE None]

\* Lines 59-62 on the document doc: the document afterwards and the value
\* returned; dict.get gives None for a key that is not there.
GetIn(doc, market, key) ==
    IF market \notin DOMAIN doc
    THEN [doc |-> Put(doc, market, <<>>), ret |-> None]
    ELSE [doc |-> doc,
          ret |-> IF key \in DOMAIN doc[market] THEN doc[market][key]
                  ELSE None]

\* Lines 54-56 on the document doc.
SetIn(doc, market, key, value) ==
    LET base == IF market \notin DOMAIN doc THEN Put(doc, market, <<>>)
                ELSE doc
    IN  Put(base, market, Put(base[market], key, value))

\* self._get(market, key)
get(i, market, key) ==
    LET r == GetIn(state[i], market, key)
    IN  /\ state' = [state EXCEPT ![i] = r.doc]
        /\ last' = [NoLast EXCEPT
                       !.op = "_get", !.inst = i, !.market = market,
                       !.key = key, !.got = r.ret, !.doc = state[i],
                       !.follows = IF last.op = "_set" /\ last.inst = i
                                   THEN <<last.market, last.key, last.value>>
                                   ELSE <<>>]
        /\ recov' = RecovReset(i)
        /\ UNCHANGED <<dex, placedBy, listsEmpty, safe_mode, opened_orders,
                       stored, fsm, fsm_cnt>>

\* self._set(market, key, value)
set(i, market, key, value) ==
    /\ state' = [state EXCEPT ![i] = SetIn(state[i], market, key, value)]
    /\ last' = [NoLast EXCEPT
                   !.op = "_set", !.inst = i, !.market = market,
                   !.key = key, !.value = value, !.doc = state[i]]
    /\ recov' = RecovReset(i)
    /\ UNCHANGED <<dex, placedBy, listsEmpty, safe_mode, opened_orders,
                   stored, fsm, fsm_cnt>>

\* The dict of lines 272-278 with the else branch dropped: only the markets
\* of the ledger get a key.
MyOrdersOfLedgerOnly(ords) ==
    [m \in Range(markets) \cap DOMAIN ords |-> ords[m]]

\* Lines 272-278: the dict getMyOrders builds from the ledger ords.
MyOrdersOf(ords) ==
    [m \in Range(markets) |-> IF m \in DOMAIN ords THEN ords[m] ELSE <<>>]

\* self.getMyOrders()
getMyOrders(i) ==
    /\ last' = [NoLast EXCEPT
                   !.op = "getMyOrders", !.inst = i, !.doc = state[i],
                   !.myOrders = MyOrdersOf(state[i].orders)]
    /\ recov' = RecovReset(i)
    /\ UNCHANGED <<dex, placedBy, listsEmpty, safe_mode, state, opened_orders,
                   stored, fsm, fsm_cnt>>

----------------------------------------------------------------------------
\* The lifecycle register (lines 252-267).

\* The names a strategy gives its states; "waiting" is the one of line 50.
FsmNames == {"waiting", "placing"}

FsmFrame ==
    UNCHANGED <<dex, placedBy, listsEmpty, safe_mode, state, opened_orders,
                stored>>

\* changeFSM without the call of line 255: the counter runs on.
changeFSMKeepingCounter(i, name) ==
    /\ fsm' = [fsm EXCEPT ![i] = name]
    /\ last' = [NoLast EXCEPT !.op = "changeFSM", !.inst = i, !.name = name,
                              !.value = fsm[i], !.ret = fsm_cnt[i]]
    /\ recov' = RecovReset(i)
    /\ UNCHANGED fsm_cnt
    /\ FsmFrame

\* self.changeFSM(name): the assignment of line 254 and resetFSMCounter.
changeFSM(i, name) ==
    /\ fsm' = [fsm EXCEPT ![i] = name]
    /\ fsm_cnt' = [fsm_cnt EXCEPT ![i] = 0]
    /\ last' = [NoLast EXCEPT !.op = "changeFSM", !.inst = i, !.name = name,
                              !.value = fsm[i], !.ret = fsm_cnt[i]]
    /\ recov' = RecovReset(i)
    /\ FsmFrame

\* self.incrementFSMCounter()
incrementFSMCounter(i) ==
    /\ fsm_cnt[i] < MaxCnt
    /\ fsm_cnt' = [fsm_cnt EXCEPT ![i] = @ + 1]
    /\ last' = [NoLast EXCEPT !.op = "incrementFSMCounter", !.inst = i]
    /\ recov' = RecovReset(i)
    /\ UNCHANGED fsm
    /\ FsmFrame

\* self.resetFSMCounter()
resetFSMCounter(i) ==
    /\ fsm_cnt' = [fsm_cnt EXCEPT ![i] = 0]
    /\ last' = [NoLast EXCEPT !.op = "resetFSMCounter", !.inst = i]
    /\ recov' = RecovReset(i)
    /\ UNCHANGED fsm
    /\ FsmFrame

----------------------------------------------------------------------------
\* The process of instance i dies and is started again: __init__ (lines 29-51)
\* with restore (lines 225-228).  Storage.restore gives the stored document,
\* or the empty state {"orders": {}} when there is none.
StorageRestore(i) ==
    IF stored[i].exists THEN stored[i].doc ELSE [orders |-> <<>>]

\* The open orders instance i placed that the stored ledger does not hold.
Orphans(i) ==
    {o.orderNumber : o \in
        {p \in dex : /\ placedBy[p.orderNumber] = i
                     /\ LET d == StorageRestore(i).orders
                        IN  ~(/\ p.market \in DOMAIN d
                              /\ Contains(d[p.market], p.orderNumber))}}

Restart(i) ==
    /\ state' = [state EXCEPT ![i] = StorageRestore(i)]
    /\ opened_orders' = [opened_orders EXCEPT ![i] = <<>>]
    /\ fsm' = [fsm EXCEPT ![i] = "waiting"]
    /\ fsm_cnt' = [fsm_cnt EXCEPT ![i] = 0]
    /\ recov' = [recov EXCEPT ![i] =
                    [stage |-> "restarted", orphans |-> Orphans(i)]]
    /\ last' = [NoLast EXCEPT !.op = "restart", !.inst = i]
    /\ UNCHANGED <<dex, placedBy, listsEmpty, safe_mode, stored>>

----------------------------------------------------------------------------
\* One bot on the account.  placedBy is read by no operation, so whose orders
\* the account holds changes nothing the bot does: the bot places them all.
Bot == 1

Placement ==
    \/ \E m \in Markets : sell(Bot, m)
    \/ \E m \in Markets : buy(Bot, m)

\* The operations of the tick (reconcile, place, bookkeeping) in any order,
\* with fills and crashes.
BotStep ==
    \/ Placement
    \/ \E o \in dex : Fill(o)
    \/ \E notify \in BOOLEAN : loadMarket(Bot, notify)
    \/ store(Bot)
    \/ Restart(Bot)

Next == BotStep /\ UNCHANGED <<pc, observed, incs>>

Spec == Init /\ [][Next]_vars

\* The tick with the cancellation methods; `last` records the cancellations
\* only.
CancelStep ==
    \/ Placement
    \/ \E o \in dex : Fill(o)
    \/ \E notify \in BOOLEAN : LoadMarketStep(Bot, notify) /\ last' = NoLast
    \/ StoreStep(Bot) /\ last' = NoLast
    \/ \E mk \in MarketArgs, side \in SideArgs : cancel_all(Bot, mk, side)
    \/ \E mk \in MarketArgs, side \in SideArgs : cancel_mine(Bot, mk, side)
    \/ \E mk \in MarketArgs, side \in SideArgs :
          cancel_this_markets(Bot, mk, side)
    \/ \E orderid \in Ids : cancel(Bot, orderid)

NextCancel == CancelStep /\ UNCHANGED <<pc, observed, incs>>

\* Cancellation neither reads nor writes the Persistent Store: the bot runs
\* in the non-persisting mode.
InitCancel == Init /\ safe_mode

SpecCancel == InitCancel /\ [][NextCancel]_vars

----------------------------------------------------------------------------
\* Two bots on one account and one market.  The scheduler runs each bot's
\* tick as loadMarket, then the strategy's placements and cancel_mine calls,
\* then store; the ticks of the two bots interleave step by step.  The
\* exchange lists the market also when it is empty, and the bots run in the
\* non-persisting mode.
SharedMarket == "M1"

InitMulti == Init /\ listsEmpty /\ safe_mode

TickLoad(i) ==
    /\ pc[i] = "idle"
    /\ loadMarket(i, TRUE)
    /\ pc' = [pc EXCEPT ![i] = "ticking"]

TickPlace(i) ==
    /\ pc[i] = "ticking"
    /\ sell(i, SharedMarket)
    /\ UNCHANGED pc

TickCancelMine(i) ==
    /\ pc[i] = "ticking"
    /\ cancel_mine(i, <<>>, "both")
    /\ UNCHANGED pc

TickStore(i) ==
    /\ pc[i] = "ticking"
    /\ store(i)
    /\ pc' = [pc EXCEPT ![i] = "idle"]

MultiStep ==
    \/ \E i \in Instances : TickLoad(i)
    \/ \E i \in Instances : TickPlace(i)
    \/ \E i \in Instances : TickCancelMine(i)
    \/ \E i \in Instances : TickStore(i)
    \/ \E o \in dex : Fill(o) /\ UNCHANGED pc

NextMulti == MultiStep /\ UNCHANGED <<observed, incs>>

SpecMulti == InitMulti /\ [][NextMulti]_vars

----------------------------------------------------------------------------
\* One bot that keeps per-market values with the accessors while its ledger
\* fills up with the orders it places.
AccessStep ==
    \/ \E m \in Markets : sell(Bot, m)
    \/ StoreStep(Bot) /\ last' = NoLast
    \/ \E m \in Markets, k \in Keys : get(Bot, m, k)
    \/ \E m \in Markets, k \in Keys, v \in Values : set(Bot, m, k, v)
    \/ getMyOrders(Bot)

NextAccess == AccessStep /\ UNCHANGED <<pc, observed, incs>>

\* The accessors read neither the Gateway's listing conventions nor the
\* Persistent Store.
InitAccess == Init /\ listsEmpty /\ safe_mode

SpecAccess == InitAccess /\ [][NextAccess]_vars

----------------------------------------------------------------------------
\* One bot that drives its lifecycle register while it trades in one market
\* through a Gateway that lists the market also when it is empty; incs counts
\* the incrementFSMCounter calls since the counter was last set to 0.
FSMStep ==
    \/ \E name \in FsmNames : changeFSM(Bot, name) /\ incs' = 0
    \/ incrementFSMCounter(Bot) /\ incs' = incs + 1
    \/ resetFSMCounter(Bot) /\ incs' = 0
    \/ Restart(Bot) /\ incs' = 0
    \/ sell(Bot, SharedMarket) /\ UNCHANGED incs
    \/ \E o \in dex : Fill(o) /\ UNCHANGED incs
    \/ \E notify \in BOOLEAN :
          LoadMarketStep(Bot, notify) /\ last' = NoLast /\ UNCHANGED incs
    \/ StoreStep(Bot) /\ last' = NoLast /\ UNCHANGED incs
    \/ CancelMineStep(Bot) /\ last' = NoLast /\ UNCHANGED incs

NextFSM == FSMStep /\ UNCHANGED <<pc, observed>>

InitFSM == Init /\ listsEmpty

SpecFSM == InitFSM /\ [][NextFSM]_vars

----------------------------------------------------------------------------
\* One bot that cancels through the side aliases.
AliasStep ==
    \/ Placement
    \/ \E o \in dex : Fill(o)
    \/ \E notify \in BOOLEAN : LoadMarketStep(Bot, notify) /\ last' = NoLast
    \/ StoreStep(Bot) /\ last' = NoLast
    \/ cancel_all_sell_orders(Bot)
    \/ cancel_all_buy_orders(Bot)
    \/ cancel_my_sell_orders(Bot)
    \/ cancel_my_buy_orders(Bot)

NextAlias == AliasStep /\ UNCHANGED <<pc, observed, incs>>

SpecAlias == InitCancel /\ [][NextAlias]_vars

----------------------------------------------------------------------------
\* One bot, with a record of what the Gateway has told it: every call of
\* returnOpenOrdersIds or returnOpenOrders adds the listed <<market, id>>
\* pairs to observed.
Listed == {<<o.market, o.orderNumber>> : o \in dex}

Observe == observed' = observed \cup Listed

ProvStep ==
    \/ \E m \in Markets : sell(Bot, m) /\ UNCHANGED observed
    \/ \E o \in dex : Fill(o) /\ UNCHANGED observed
    \/ \E notify \in BOOLEAN :
          LoadMarketStep(Bot, notify) /\ last' = NoLast /\ Observe
    \/ StoreStep(Bot) /\ last' = NoLast /\ Observe
    \/ CancelAllStep(Bot) /\ last' = NoLast /\ Observe
    \/ CancelMineStep(Bot) /\ last' = NoLast /\ Observe
    \/ \E orderid \in Ids :
          CancelStepOf(Bot, orderid) /\ last' = NoLast /\ UNCHANGED observed
    \/ Restart(Bot) /\ UNCHANGED observed

NextProv == ProvStep /\ UNCHANGED <<pc, incs>>

SpecProv == Init /\ [][NextProv]_vars

----------------------------------------------------------------------------
\* Properties.

\* The ids a snapshot (dict market -> list) holds for market m.
IdsAt(snap, m) == IF m \in DOMAIN snap THEN Range(snap[m]) ELSE {}

\* The list a ledger holds for market m; none counts as empty.
ListAt(ords, m) == IF m \in DOMAIN ords THEN ords[m] ELSE <<>>

Served == Range(markets)

BatchOps == {"cancel_all", "cancel_mine", "cancel_this_markets"}

\* The ledger of the instance that ran the latest operation.
Post == state[last.inst].orders

\* C1: a loadMarket that directly follows a loadMarket of the same instance
\* that returned (no Gateway change in between) leaves the ledger as the first
\* call left it and invokes orderFilled for no id.  Stated for a first call
\* on a ledger that holds no id twice.
C1_IdempotentReconcile ==
    (last.op = "loadMarket" /\ last.again /\ last.firstNoDup)
    => (Post = last.pre /\ last.filled = <<>>)

\* C2: after a loadMarket(notify=True) that returned, for every served market
\* with a ledger entry, every recorded id that the Gateway no longer lists is
\* gone from orders[m] and was reported by orderFilled exactly once, and every
\* recorded id that is still listed is still recorded and was not reported.
\* Stated for ledgers that hold no id twice.
C2_FillDetection ==
    (/\ last.op = "loadMarket"
     /\ last.notify
     /\ ~last.raised
     /\ \A m \in DOMAIN last.pre : NoDup(last.pre[m]))
    => \A m \in Served \cap DOMAIN last.pre :
          \A id \in Range(last.pre[m]) :
             IF id \in IdsAt(last.live, m)
             THEN Contains(Post[m], id) /\ Count(last.filled, id) = 0
             ELSE ~Contains(Post[m], id) /\ Count(last.filled, id) = 1

\* C3: every id cancel_mine hands to the Gateway was, when cancel_mine was
\* called, recorded in the ledger under one of the requested markets and open
\* in that market.
C3_MineOwnership ==
    last.op = "cancel_mine"
    => \A id \in last.requested :
          \E m \in last.scope :
             /\ Contains(ListAt(last.pre, m), id)
             /\ id \in IdsAt(last.live, m)

\* A cancel_mine that canceled an id while another order, open in a requested
\* market, was not in the ledger and was left alone.
C3_Witness ==
    /\ last.op = "cancel_mine"
    /\ last.requested # {}
    /\ \E m \in last.scope :
          \E id \in IdsAt(last.live, m) :
             /\ ~Contains(ListAt(last.pre, m), id)
             /\ id \notin last.requested

\* C4: no ledger holds, and no cancel_mine hands to the Gateway, an id that
\* another instance placed.
C4_MultiInstanceOwnership ==
    /\ \A i \in Instances :
          \A m \in DOMAIN state[i].orders :
             \A id \in Range(state[i].orders[m]) : placedBy[id] = i
    /\ last.op = "cancel_mine"
       => \A id \in last.requested : placedBy[id] = last.inst

\* C5: no orders[m] list holds an id twice.
C5_Uniqueness ==
    \A i \in Instances :
       \A m \in DOMAIN state[i].orders : NoDup(state[i].orders[m])

\* C6: store() appends to orders[m], and reports by orderPlaced exactly once,
\* every id the Gateway lists for the served market m that opened_orders does
\* not hold for m; it appends and reports no other id.
C6_AdoptionOnPlacement ==
    last.op = "store"
    => \A id \in Ids :
          LET IsNew(m) == /\ id \in IdsAt(last.live, m)
                          /\ id \notin IdsAt(last.opened, m)
          IN  /\ \A m \in Served :
                    /\ m \in DOMAIN Post
                    /\ SubSeq(Post[m], 1, Len(ListAt(last.pre, m)))
                          = ListAt(last.pre, m)
                    /\ Count(Post[m], id)
                          = Count(ListAt(last.pre, m), id)
                            + (IF IsNew(m) THEN 1 ELSE 0)
              /\ Count(last.placed, id)
                    = (IF \E m \in Served : IsNew(m) THEN 1 ELSE 0)

\* A store() that met, in one market, an id of the previous snapshot and an
\* id that is not in it.
C6_Witness ==
    /\ last.op = "store"
    /\ \E m \in Served :
          /\ IdsAt(last.live, m) \cap IdsAt(last.opened, m) # {}
          /\ IdsAt(last.live, m) \ IdsAt(last.opened, m) # {}

\* C7: when the first tick after a restart (loadMarket, then store) is over,
\* every order the instance had placed before the crash without a stored
\* ledger entry, and that is still open, is in orders[market].
C7_CrashRecovery ==
    \A i \in Instances :
       recov[i].stage = "stored"
       => \A o \in dex :
             o.orderNumber \in recov[i].orphans
             => Contains(ListAt(state[i].orders, o.market), o.orderNumber)

\* C8: when the Gateway cancel fails for ids of a batch, _cancel_set has
\* still sent a cancel request for every id of the batch, nothing was raised,
\* and the count returned is the size of the batch.
C8_PartialFailureTolerance ==
    (last.op \in BatchOps /\ last.failed # {})
    => /\ last.requested = last.toCancel
       /\ ~last.raised
       /\ last.ret = Cardinality(last.toCancel)

\* A batch of at least two ids of which exactly one failed.
C8_Witness ==
    /\ last.op \in BatchOps
    /\ Cardinality(last.failed) = 1
    /\ Cardinality(last.toCancel) >= 2

\* C9 as claimed: an id whose Gateway cancel failed keeps its place in the
\* ledger.
C9_FailedCancelKeepsLedger ==
    last.op \in BatchOps
    => \A id \in last.failed :
          \A m \in DOMAIN last.pre :
             Count(Post[m], id) = Count(last.pre[m], id)

\* C9 as amended: an id whose Gateway cancel failed is treated as a canceled
\* one: orderCanceled is invoked for it once and every list that held it
\* loses its first occurrence.
C9_FailedCancelStillDropped ==
    last.op \in BatchOps
    => \A id \in last.failed :
          /\ Count(last.canceled, id) = 1
          /\ DOMAIN Post = DOMAIN last.pre
          /\ \A m \in DOMAIN last.pre :
                Count(Post[m], id) = IF Count(last.pre[m], id) > 0
                                     THEN Count(last.pre[m], id) - 1
                                     ELSE 0

\* A failed cancel of an id the ledger held: the order is still open on the
\* exchange and the ledger no longer holds it.
C9_Witness ==
    /\ last.op \in BatchOps
    /\ \E o \in dex :
          /\ o.orderNumber \in last.failed
          /\ Contains(ListAt(last.pre, o.market), o.orderNumber)
          /\ ~Contains(ListAt(Post, o.market), o.orderNumber)

\* C10: cancel(orderid) returns without raising, whether the Gateway cancel
\* succeeds or fails, and leaves the ledger as it was.
C10_CancelContainsErrors ==
    last.op = "cancel" => (~last.raised /\ Post = last.pre)

\* C11: in the non-persisting mode no step changes the Persistent Store's
\* record of any bot, whatever the operation; in the persisting mode the
\* record after a store() is the state document store() has just built.
C11_NonPersistingMode ==
    [][/\ safe_mode => stored' = stored
       /\ (last'.op = "store" /\ ~safe_mode)
             => stored'[last'.inst]
                   = [exists |-> TRUE, doc |-> state'[last'.inst]]]_vars

\* A store() in the non-persisting mode that adopted an id, with nothing
\* stored for the bot.
C11_Witness ==
    /\ safe_mode
    /\ last.op = "store"
    /\ last.placed # <<>>
    /\ state[last.inst].orders # last.pre
    /\ ~stored[last.inst].exists

\* The state document of the instance that ran the latest operation.
PostDoc == state[last.inst]

\* C12: _get on a market without an entry returns None and leaves an empty
\* entry for it; _set on a market without an entry creates the entry, and a
\* _get of the same market and key that follows a _set returns the value
\* set; both leave state["orders"] and the entries of the other markets as
\* they were.
C12_LazyMarketMaterialization ==
    /\ (last.op = "_get" /\ last.market \notin DOMAIN last.doc)
          => /\ last.got = None
             /\ last.market \in DOMAIN PostDoc
             /\ DOMAIN PostDoc[last.market] = {}
    /\ (last.op = "_set" /\ last.market \notin DOMAIN last.doc)
          => /\ last.market \in DOMAIN PostDoc
             /\ DOMAIN PostDoc[last.market] = {last.key}
             /\ PostDoc[last.market][last.key] = last.value
    /\ (last.op = "_get" /\ last.follows # <<>>
                         /\ last.follows[1] = last.market
                         /\ last.follows[2] = last.key)
          => last.got = last.follows[3]
    /\ last.op \in {"_get", "_set"}
          => /\ DOMAIN PostDoc = DOMAIN last.doc \cup {last.market}
             /\ \A x \in DOMAIN last.doc \ {last.market} :
                   PostDoc[x] = last.doc[x]
             /\ PostDoc.orders = last.doc.orders

\* A _get that follows the _set that created the market's entry, with an
\* order recorded in the ledger.
C12_Witness ==
    /\ last.op = "_get"
    /\ last.follows = <<last.market, last.key, last.got>>
    /\ last.got \in Values
    /\ \E m \in DOMAIN PostDoc.orders : PostDoc.orders[m] # <<>>
    /\ \E m \in Markets : m \notin DOMAIN PostDoc

\* C14: the dict getMyOrders returns has exactly the served markets as keys,
\* with the list orders[m] for a market of the ledger and the empty list for
\* any other; the call changes neither the state document (no entry appears
\* in orders) nor the account's open orders.
C14_GetMyOrders ==
    /\ [](last.op = "getMyOrders"
            => /\ DOMAIN last.myOrders = Served
               /\ \A m \in Served :
                     last.myOrders[m] = ListAt(PostDoc.orders, m)
               /\ PostDoc = last.doc)
    /\ [][last'.op = "getMyOrders"
             => /\ state' = state
                /\ dex' = dex
                /\ opened_orders' = opened_orders
                /\ stored' = stored]_vars

\* A getMyOrders on a ledger without an entry for a served market in which
\* the account has an open order: the market gets the empty list and the
\* ledger still has no entry for it.
C14_Witness ==
    /\ last.op = "getMyOrders"
    /\ \E o \in dex : /\ o.market \in Served
                       /\ o.market \notin DOMAIN PostDoc.orders
                       /\ last.myOrders[o.market] = <<>>

FsmOps == {"changeFSM", "incrementFSMCounter", "resetFSMCounter"}

\* C13: an instance starts, and starts again after a restart, in
\* ("waiting", 0); after changeFSM(name), from any state and for any name,
\* fsm is name and fsm_cnt is 0; fsm_cnt is the number of incrementFSMCounter
\* calls since the last changeFSM, resetFSMCounter or start; and no step of
\* another operation changes fsm or fsm_cnt.
C13_LifecycleRegister ==
    /\ (fsm[Bot] = "waiting" /\ fsm_cnt[Bot] = 0)
    /\ [](last.op = "restart"
            => fsm[last.inst] = "waiting" /\ fsm_cnt[last.inst] = 0)
    /\ [](last.op = "changeFSM"
            => fsm[last.inst] = last.name /\ fsm_cnt[last.inst] = 0)
    /\ [](fsm_cnt[Bot] = incs)
    /\ [][last'.op \in {"incrementFSMCounter", "resetFSMCounter"}
             => fsm' = fsm]_vars
    /\ [][last'.op \notin FsmOps \cup {"restart"}
             => fsm' = fsm /\ fsm_cnt' = fsm_cnt]_vars

\* A changeFSM to the name the register already had, made when the counter
\* was above 0 and the ledger held an id.
C13_Witness ==
    /\ last.op = "changeFSM"
    /\ last.value = last.name
    /\ last.ret > 0
    /\ fsm_cnt[last.inst] = 0
    /\ \E m \in DOMAIN PostDoc.orders : PostDoc.orders[m] # <<>>

\* C15: after a loadMarket, whether it returned or raised, the ledger has
\* the market entries it had before, and no list holds an id more often than
\* before: open ids the ledger did not hold are not adopted.
C15_ReconcileOnlyShrinks ==
    last.op = "loadMarket"
    => /\ DOMAIN Post = DOMAIN last.pre
       /\ \A m \in DOMAIN last.pre :
             \A id \in Ids : Count(Post[m], id) <= Count(last.pre[m], id)

\* A loadMarket that removed an id while the Gateway listed, for a market of
\* the ledger, an id the ledger did not hold.
C15_Witness ==
    /\ last.op = "loadMarket"
    /\ ~last.raised
    /\ Post # last.pre
    /\ \E m \in DOMAIN last.pre :
          \E id \in IdsAt(last.live, m) :
             ~Contains(last.pre[m], id) /\ ~Contains(Post[m], id)

\* C16: a loadMarket that finds a served market with recorded ids and no
\* entry in the Gateway's listing returns without raising, and has removed
\* every recorded id of such a market and, with notify, reported it by
\* orderFilled.
C16_MissingMarketReconciled ==
    (/\ last.op = "loadMarket"
     /\ \E m \in Served \cap DOMAIN last.pre :
           last.pre[m] # <<>> /\ m \notin DOMAIN last.live)
    => /\ ~last.raised
       /\ \A m \in (Served \cap DOMAIN last.pre) \ DOMAIN last.live :
             /\ Post[m] = <<>>
             /\ last.notify
                   => \A id \in Range(last.pre[m]) : Contains(last.filled, id)

\* C17: a cancel_all, cancel_mine or cancel_this_markets whose requested
\* markets include one without open orders (an empty list or no entry in the
\* Gateway's listing) raises nothing and sends a cancel request for every id
\* it selected in the other markets.
C17_CancelOverEmptyMarket ==
    (/\ last.op \in BatchOps
     /\ \E m \in last.scope : IdsAt(last.live, m) = {})
    => /\ ~last.raised
       /\ last.requested = last.toCancel

\* C18: when a batch cancellation has run _cancel_set on the ids toCancel,
\* orderCanceled was invoked exactly once for each of them, no list of the
\* ledger holds any of them, and every list is what it was without them.
C18_LedgerCleanup ==
    (last.op \in BatchOps /\ ~last.raised)
    => /\ \A id \in last.toCancel : Count(last.canceled, id) = 1
       /\ Range(last.canceled) = last.toCancel
       /\ DOMAIN Post = DOMAIN last.pre
       /\ \A m \in DOMAIN last.pre :
             Post[m] = SelectSeq(last.pre[m],
                                 LAMBDA id : id \notin last.toCancel)

AliasOps == {"cancel_all_sell_orders", "cancel_all_buy_orders",
             "cancel_my_sell_orders", "cancel_my_buy_orders"}

\* C19: a side alias raises nothing and sends cancel requests for exactly
\* the ids that cancel_all, respectively cancel_mine, over the served markets
\* with the alias's side selects.
C19_SideAliases ==
    last.op \in AliasOps
    => /\ ~last.raised
       /\ last.requested = last.reference

\* C20: every id in orders[m] was, at some earlier point, listed by the
\* Gateway as an open order of market m.
C20_Provenance ==
    \A i \in Instances :
       \A m \in DOMAIN state[i].orders :
          \A id \in Range(state[i].orders[m]) : <<m, id>> \in observed

\* The ledger holds an id that is no longer open, and the Gateway has listed
\* an id of another market that the ledger does not hold.
C20_Witness ==
    /\ \E m \in DOMAIN state[Bot].orders :
          \E id \in Range(state[Bot].orders[m]) : id \notin OpenIn(m)
    /\ \E p \in observed :
          /\ p[1] \in DOMAIN state[Bot].orders
          /\ ~Contains(state[Bot].orders[p[1]], p[2])
          /\ \E m \in DOMAIN state[Bot].orders :
                m # p[1] /\ state[Bot].orders[m] # <<>>

====
